---- MODULE Spec2Model ----
(***************************************************************************)
(* A model of nextcloud_analytics_rs (src/lib.rs): the SyncClient that     *)
(* posts data points to the Nextcloud Analytics API.                       *)
(*                                                                         *)
(* Text is modelled as a sequence of characters, each character a one      *)
(* character string: the URL, the request body, the response body and the  *)
(* error messages are all built and taken apart character by character.    *)
(***************************************************************************)
EXTENDS Integers, Sequences, FiniteSets, TLC

VARIABLES
    args,       \* the arguments SyncClient::new was called with
    url,        \* SyncClient.url
    user,       \* SyncClient.user
    passwd,     \* SyncClient.passwd
    requests,   \* every HTTP request the client has issued, in order
    calls,      \* the number of calls made on the client
    lastCall,   \* the last call: the method and its arguments
    lastNet,    \* what the network answered to the last call's request
    result,     \* what the last call ended with
    pc          \* "new" before construction, then "ready"; "panicked" after a
                \* panic; "format" and "formatted" where only the body is built

vars == <<args, url, user, passwd, requests, calls, lastCall, lastNet, result, pc>>

----------------------------------------------------------------------------
(* Bounds of the model.                                                    *)

\* Base URLs are all texts over BaseChars of at most this length.
MaxBaseLen == 3
\* Collection ids 0..MaxCollection are tried, and one of ten digits.
MaxCollection == 11
\* dimension1 and dimension2 are all texts over DimChars of at most this length.
MaxDimLen == 2
\* At most this many calls are made on one client.
MaxCalls == 2
\* Response bodies are the sample ones and all texts over BodyChars of at most
\* this length.
MaxBodyLen == 1

----------------------------------------------------------------------------
(* Text: sequences of characters.                                          *)

RECURSIVE Flatten(_)
\* The concatenation of a sequence of texts.
Flatten(parts) ==
    IF parts = <<>> THEN <<>> ELSE Head(parts) \o Flatten(Tail(parts))

\* All texts over the characters cs of length at most n.
TextsUpTo(cs, n) == UNION {[1..k -> cs] : k \in 0..n}

\* str::ends_with
EndsWith(s, suffix) ==
    /\ Len(suffix) <= Len(s)
    /\ SubSeq(s, Len(s) - Len(suffix) + 1, Len(s)) = suffix

\* str::starts_with
StartsWith(s, prefix) ==
    /\ Len(prefix) <= Len(s)
    /\ SubSeq(s, 1, Len(prefix)) = prefix

\* pat occurs in s at position i.
OccursAt(s, pat, i) ==
    /\ i >= 1
    /\ i + Len(pat) - 1 <= Len(s)
    /\ SubSeq(s, i, i + Len(pat) - 1) = pat

\* str::contains
Contains(s, pat) == \E i \in 1..(Len(s) + 1) : OccursAt(s, pat, i)

RECURSIVE ReplaceFrom(_, _, _, _)
\* str::replace from position i on: every non-overlapping occurrence of
\* pat (not empty), left to right, becomes by.
ReplaceFrom(s, pat, by, i) ==
    IF i > Len(s) THEN <<>>
    ELSE IF OccursAt(s, pat, i) THEN by \o ReplaceFrom(s, pat, by, i + Len(pat))
    ELSE <<s[i]>> \o ReplaceFrom(s, pat, by, i + 1)

Replace(s, pat, by) == ReplaceFrom(s, pat, by, 1)

\* The printable ASCII characters, U+0020 to U+007E, in code point order (the
\* grave accent, which a TLA+ string cannot hold, goes by its code point).
Ascii ==
    <<" ","!","\"","#","$","%","&","'","(",")","*","+",",","-",".","/","0","1","2","3","4","5",
      "6","7","8","9",":",";","<","=",">","?","@","A","B","C","D","E","F","G","H","I","J","K",
      "L","M","N","O","P","Q","R","S","T","U","V","W","X","Y","Z","[","\\","]","^","_","U+0060","a",
      "b","c","d","e","f","g","h","i","j","k","l","m","n","o","p","q","r","s","t","u","v","w",
      "x","y","z","{","|","}","~">>

Digits == <<"0","1","2","3","4","5","6","7","8","9">>

DigitChars == {Digits[i] : i \in 1..10}

IsDigit(c) == c \in DigitChars

DigitValue(c) == (CHOOSE i \in 1..10 : Digits[i] = c) - 1

RECURSIVE Decimal(_)
\* Display of an unsigned integer (u32::to_string): decimal, no sign, no
\* padding, no separators.
Decimal(n) ==
    IF n < 10 THEN <<Digits[n + 1]>>
    ELSE Decimal(n \div 10) \o <<Digits[(n % 10) + 1]>>

----------------------------------------------------------------------------
(* SyncClient::new                                                         *)

URL_PREFIX ==
    <<"a","p","p","s","/","a","n","a","l","y","t","i","c","s","/","a","p","i","/","1",".","0",
      "/","a","d","d","d","a","t","a","/","{","C","O","L","L","E","C","T","I","O","N","_","I",
      "D","}">>

COLLECTION_ID == <<"{","C","O","L","L","E","C","T","I","O","N","_","I","D","}">>

\* A mutation of AddTrailingSlash: the separator is appended unconditionally.
AddTrailingSlash_always(nextcloud_url) == nextcloud_url \o <<"/">>

\* if !url.ends_with("/") { url += "/"; }
AddTrailingSlash(nextcloud_url) ==
    IF ~EndsWith(nextcloud_url, <<"/">>) THEN nextcloud_url \o <<"/">>
    ELSE nextcloud_url

\* The fields of the client SyncClient::new(nextcloud_url, collection, user,
\* passwd) returns (the transport handle has no state of its own here).
New(nextcloud_url, collection, u, p) ==
    [url    |-> AddTrailingSlash(nextcloud_url)
                  \o Replace(URL_PREFIX, COLLECTION_ID, Decimal(collection)),
     user   |-> u,
     passwd |-> p]

----------------------------------------------------------------------------
(* Characters and their code points.                                       *)

\* The C0 control characters, U+0000 to U+001F, in code point order; the four
\* a TLA+ string can hold stand for themselves, the others go by code point.
C0 ==
    <<"U+0000","U+0001","U+0002","U+0003","U+0004","U+0005","U+0006","U+0007","U+0008",
      "\t","\n","U+000B","\f","\r","U+000E","U+000F","U+0010","U+0011","U+0012","U+0013",
      "U+0014","U+0015","U+0016","U+0017","U+0018","U+0019","U+001A","U+001B","U+001C",
      "U+001D","U+001E","U+001F">>

\* Every character past U+007E is one stand-in: the texts of this model are ASCII.
Beyond == "U+FFFD"

ControlChars == {C0[i] : i \in 1..32}

AsciiChars == {Ascii[i] : i \in 1..95}

IsControl(c) == c \in ControlChars

IsAscii(c) == c \in AsciiChars

CodePoint(c) ==
    IF IsControl(c) THEN (CHOOSE i \in 1..32 : C0[i] = c) - 1
    ELSE IF IsAscii(c) THEN (CHOOSE i \in 1..95 : Ascii[i] = c) + 31
    ELSE 65533

CharOfCode(n) ==
    IF n < 32 THEN C0[n + 1]
    ELSE IF n <= 126 THEN Ascii[n - 31]
    ELSE Beyond

HexDigits == <<"0","1","2","3","4","5","6","7","8","9","a","b","c","d","e","f">>

UpperHexDigits == <<"A","B","C","D","E","F">>

LowerHexChars == {HexDigits[i] : i \in 1..16}

UpperHexChars == {UpperHexDigits[i] : i \in 1..6}

IsHexDigit(c) == c \in LowerHexChars \cup UpperHexChars

HexValue(c) ==
    IF c \in LowerHexChars
    THEN (CHOOSE i \in 1..16 : HexDigits[i] = c) - 1
    ELSE (CHOOSE i \in 1..6 : UpperHexDigits[i] = c) + 9

RECURSIVE LowerHex(_)
\* {:x} of an unsigned integer: lower case, no padding.
LowerHex(n) ==
    IF n < 16 THEN <<HexDigits[n + 1]>>
    ELSE LowerHex(n \div 16) \o <<HexDigits[(n % 16) + 1]>>

----------------------------------------------------------------------------
(* JSON (RFC 8259), as json::parse reads the response body and as the      *)
(* remote service reads the request body.                                  *)
(*                                                                         *)
(* A JSON value is a record [t, b, s, kids]: t its type, b the boolean, s  *)
(* the text of a string or number, kids the members of an object or the    *)
(* elements of an array, each [k |-> key, v |-> value].                    *)

JNull == [t |-> "null", b |-> FALSE, s |-> <<>>, kids |-> <<>>]
JBool(b) == [t |-> "boolean", b |-> b, s |-> <<>>, kids |-> <<>>]
JString(s) == [t |-> "string", b |-> FALSE, s |-> s, kids |-> <<>>]
JNumber(s) == [t |-> "number", b |-> FALSE, s |-> s, kids |-> <<>>]
JArray(kids) == [t |-> "array", b |-> FALSE, s |-> <<>>, kids |-> kids]
JObject(kids) == [t |-> "object", b |-> FALSE, s |-> <<>>, kids |-> kids]

\* What a parsing step returns: the value and the position after it, or a failure.
Parsed(v, i) == [ok |-> TRUE, v |-> v, i |-> i]
ParseFailed(i) == [ok |-> FALSE, v |-> JNull, i |-> i]

CharAt(s, i) == IF i >= 1 /\ i <= Len(s) THEN s[i] ELSE "EOF"

WhitespaceChars == {" ", "\t", "\n", "\r"}

IsWhitespace(c) == c \in WhitespaceChars

RECURSIVE SkipWhitespace(_, _)
SkipWhitespace(s, i) ==
    IF IsWhitespace(CharAt(s, i)) THEN SkipWhitespace(s, i + 1) ELSE i

RECURSIVE SkipDigits(_, _)
SkipDigits(s, i) == IF IsDigit(CharAt(s, i)) THEN SkipDigits(s, i + 1) ELSE i

\* number = [ "-" ] int [ "." 1*DIGIT ] [ ("e" / "E") [ "-" / "+" ] 1*DIGIT ]
ParseNumber(s, i) ==
    LET i1 == IF CharAt(s, i) = "-" THEN i + 1 ELSE i
        i2 == IF CharAt(s, i1) = "0" THEN i1 + 1 ELSE SkipDigits(s, i1)
        f1 == SkipDigits(s, i2 + 1)
        i3 == IF CharAt(s, i2) = "." THEN f1 ELSE i2
        e1 == IF CharAt(s, i3 + 1) \in {"+", "-"} THEN i3 + 2 ELSE i3 + 1
        e2 == SkipDigits(s, e1)
        i4 == IF CharAt(s, i3) \in {"e", "E"} THEN e2 ELSE i3
    IN  IF i2 = i1 THEN ParseFailed(i1)
        ELSE IF CharAt(s, i2) = "." /\ f1 = i2 + 1 THEN ParseFailed(f1)
        ELSE IF CharAt(s, i3) \in {"e", "E"} /\ e2 = e1 THEN ParseFailed(e1)
        ELSE Parsed(JNumber(SubSeq(s, i, i4 - 1)), i4)

\* The character a two-character escape \c stands for, "EOF" when it is none.
Unescape(c) ==
    CASE c = "\"" -> "\""
      [] c = "\\" -> "\\"
      [] c = "/" -> "/"
      [] c = "b" -> "U+0008"
      [] c = "f" -> "\f"
      [] c = "n" -> "\n"
      [] c = "r" -> "\r"
      [] c = "t" -> "\t"
      [] OTHER -> "EOF"

RECURSIVE ParseString(_, _, _)
\* The string whose opening quote is before position i; acc is what was read.
ParseString(s, i, acc) ==
    LET c == CharAt(s, i)
        e == CharAt(s, i + 1)
    IN  IF c = "EOF" THEN ParseFailed(i)
        ELSE IF c = "\"" THEN Parsed(JString(acc), i + 1)
        ELSE IF c = "\\" THEN
            IF e = "u" THEN
                IF \A k \in 2..5 : IsHexDigit(CharAt(s, i + k))
                THEN ParseString(s, i + 6,
                        Append(acc, CharOfCode(HexValue(s[i + 2]) * 4096 + HexValue(s[i + 3]) * 256
                                               + HexValue(s[i + 4]) * 16 + HexValue(s[i + 5]))))
                ELSE ParseFailed(i + 2)
            ELSE IF Unescape(e) = "EOF" THEN ParseFailed(i + 1)
            ELSE ParseString(s, i + 2, Append(acc, Unescape(e)))
        ELSE IF IsControl(c) THEN ParseFailed(i)
        ELSE ParseString(s, i + 1, Append(acc, c))

RECURSIVE ParseValue(_, _)
RECURSIVE ParseElements(_, _, _)
RECURSIVE ParseMembers(_, _, _)

\* The elements of an array from position i on, up to its "]".
ParseElements(s, i, acc) ==
    LET r == ParseValue(s, i)
        j == SkipWhitespace(s, r.i)
        kids == Append(acc, [k |-> <<>>, v |-> r.v])
    IN  IF ~r.ok THEN r
        ELSE IF CharAt(s, j) = "," THEN ParseElements(s, j + 1, kids)
        ELSE IF CharAt(s, j) = "]" THEN Parsed(JArray(kids), j + 1)
        ELSE ParseFailed(j)

\* The members of an object from position i on, up to its "}".
ParseMembers(s, i, acc) ==
    LET i1 == SkipWhitespace(s, i)
        key == ParseString(s, i1 + 1, <<>>)
        i2 == SkipWhitespace(s, key.i)
        r == ParseValue(s, i2 + 1)
        j == SkipWhitespace(s, r.i)
        kids == Append(acc, [k |-> key.v.s, v |-> r.v])
    IN  IF CharAt(s, i1) # "\"" THEN ParseFailed(i1)
        ELSE IF ~key.ok THEN key
        ELSE IF CharAt(s, i2) # ":" THEN ParseFailed(i2)
        ELSE IF ~r.ok THEN r
        ELSE IF CharAt(s, j) = "," THEN ParseMembers(s, j + 1, kids)
        ELSE IF CharAt(s, j) = "}" THEN Parsed(JObject(kids), j + 1)
        ELSE ParseFailed(j)

\* The value that starts at or after position i.
ParseValue(s, i) ==
    LET j == SkipWhitespace(s, i)
        c == CharAt(s, j)
    IN  CASE c = "{" ->
                 IF CharAt(s, SkipWhitespace(s, j + 1)) = "}"
                 THEN Parsed(JObject(<<>>), SkipWhitespace(s, j + 1) + 1)
                 ELSE ParseMembers(s, j + 1, <<>>)
          [] c = "[" ->
                 IF CharAt(s, SkipWhitespace(s, j + 1)) = "]"
                 THEN Parsed(JArray(<<>>), SkipWhitespace(s, j + 1) + 1)
                 ELSE ParseElements(s, j + 1, <<>>)
          [] c = "\"" -> ParseString(s, j + 1, <<>>)
          [] c = "t" ->
                 IF OccursAt(s, <<"t","r","u","e">>, j)
                 THEN Parsed(JBool(TRUE), j + 4) ELSE ParseFailed(j)
          [] c = "f" ->
                 IF OccursAt(s, <<"f","a","l","s","e">>, j)
                 THEN Parsed(JBool(FALSE), j + 5) ELSE ParseFailed(j)
          [] c = "n" ->
                 IF OccursAt(s, <<"n","u","l","l">>, j)
                 THEN Parsed(JNull, j + 4) ELSE ParseFailed(j)
          [] c = "-" \/ IsDigit(c) -> ParseNumber(s, j)
          [] OTHER -> ParseFailed(j)

\* json::parse: the one value the whole text is, or a failure.
JsonParse(s) ==
    LET r == ParseValue(s, 1)
        j == SkipWhitespace(s, r.i)
    IN  IF r.ok /\ j <= Len(s) THEN ParseFailed(j) ELSE r

RECURSIVE Lookup(_, _, _)
\* The value of the last member of kids[1..n] named key, null when there is none.
Lookup(kids, key, n) ==
    IF n = 0 THEN JNull
    ELSE IF kids[n].k = key THEN kids[n].v
    ELSE Lookup(kids, key, n - 1)

\* value[key]: the member of an object, null for a missing member and for
\* anything that is no object.
Index(value, key) ==
    IF value.t = "object" THEN Lookup(value.kids, key, Len(value.kids)) ELSE JNull

\* JsonValue::as_bool and as_str, as Options.
Some(x) == [some |-> TRUE, x |-> x]
None(x) == [some |-> FALSE, x |-> x]

as_bool(value) == IF value.t = "boolean" THEN Some(value.b) ELSE None(FALSE)

as_str(value) == IF value.t = "string" THEN Some(value.s) ELSE None(<<>>)

----------------------------------------------------------------------------
(* Formatting: {:?} of a String, {} of an f64, DateTime<Utc>::to_rfc2822.  *)

\* char::escape_debug as str's Debug applies it: the short escapes, the
\* printable characters as they are, \u{hex} for every other character.
EscapeDebug(c) ==
    CASE c = "U+0000" -> <<"\\", "0">>
      [] c = "\t" -> <<"\\", "t">>
      [] c = "\r" -> <<"\\", "r">>
      [] c = "\n" -> <<"\\", "n">>
      [] c = "\\" -> <<"\\", "\\">>
      [] c = "\"" -> <<"\\", "\"">>
      [] OTHER -> IF IsAscii(c) THEN <<c>>
                  ELSE <<"\\", "u", "{">> \o LowerHex(CodePoint(c)) \o <<"}">>

\* {:?} of a String: the escaped characters between double quotes.
DebugString(s) ==
    <<"\"">> \o Flatten([i \in 1..Len(s) |-> EscapeDebug(s[i])]) \o <<"\"">>

\* An f64 that is the nearest one to a short decimal: mant / 10^scale, negated
\* when neg; or a NaN or an infinity.
Finite(neg, mant, scale) == [class |-> "finite", neg |-> neg, mant |-> mant, scale |-> scale]
NaN == [class |-> "nan", neg |-> FALSE, mant |-> 0, scale |-> 0]
Infinity(neg) == [class |-> "infinite", neg |-> neg, mant |-> 0, scale |-> 0]

RECURSIVE Pow10(_)
Pow10(n) == IF n = 0 THEN 1 ELSE 10 * Pow10(n - 1)

RECURSIVE Shortest(_)
\* The same number with no trailing zero among its decimals.
Shortest(x) ==
    IF x.scale > 0 /\ x.mant % 10 = 0
    THEN Shortest([x EXCEPT !.mant = x.mant \div 10, !.scale = x.scale - 1])
    ELSE x

RECURSIVE ZeroPad(_, _)
\* text, with zeros before it up to the width.
ZeroPad(text, width) ==
    IF Len(text) >= width THEN text ELSE ZeroPad(<<"0">> \o text, width)

\* {} of an f64: "NaN", "inf", "-inf", or the shortest decimal that reads back
\* as the same f64, with no exponent and no decimals for a whole number.
DisplayF64(x) ==
    LET n == Shortest(x)
        sign == IF x.neg THEN <<"-">> ELSE <<>>
        whole == Decimal(n.mant \div Pow10(n.scale))
        decimals == ZeroPad(Decimal(n.mant % Pow10(n.scale)), n.scale)
    IN  CASE x.class = "nan" -> <<"N", "a", "N">>
          [] x.class = "infinite" -> sign \o <<"i", "n", "f">>
          [] OTHER -> sign \o whole \o (IF n.scale = 0 THEN <<>> ELSE <<".">> \o decimals)

\* The days from 1970-01-01 to the date (proleptic Gregorian calendar).
DaysFromCivil(year, month, day) ==
    LET y == IF month <= 2 THEN year - 1 ELSE year
        era == y \div 400
        yoe == y - era * 400
        mp == (month + 9) % 12
        doy == (153 * mp + 2) \div 5 + day - 1
        doe == yoe * 365 + yoe \div 4 - yoe \div 100 + doy
    IN  era * 146097 + doe - 719468

WeekdayNames ==
    <<<<"S","u","n">>, <<"M","o","n">>, <<"T","u","e">>, <<"W","e","d">>, <<"T","h","u">>,
      <<"F","r","i">>, <<"S","a","t">>>>

MonthNames ==
    <<<<"J","a","n">>, <<"F","e","b">>, <<"M","a","r">>, <<"A","p","r">>, <<"M","a","y">>,
      <<"J","u","n">>, <<"J","u","l">>, <<"A","u","g">>, <<"S","e","p">>, <<"O","c","t">>,
      <<"N","o","v">>, <<"D","e","c">>>>

\* 1970-01-01 was a Thursday.
Weekday(time) == WeekdayNames[((DaysFromCivil(time.year, time.month, time.day) + 4) % 7) + 1]

\* DateTime<Utc>::to_rfc2822, e.g. "Sat, 1 Jul 2023 10:52:37 +0000".
to_rfc2822(time) ==
    Weekday(time) \o <<",", " ">> \o Decimal(time.day) \o <<" ">> \o MonthNames[time.month]
        \o <<" ">> \o ZeroPad(Decimal(time.year), 4) \o <<" ">>
        \o ZeroPad(Decimal(time.hour), 2) \o <<":">> \o ZeroPad(Decimal(time.minute), 2)
        \o <<":">> \o ZeroPad(Decimal(time.second), 2) \o <<" ", "+", "0", "0", "0", "0">>

\* DateTime<Utc>::to_rfc3339, e.g. "2023-07-01T10:52:37+00:00".
to_rfc3339(time) ==
    ZeroPad(Decimal(time.year), 4) \o <<"-">> \o ZeroPad(Decimal(time.month), 2) \o <<"-">>
        \o ZeroPad(Decimal(time.day), 2) \o <<"T">>
        \o ZeroPad(Decimal(time.hour), 2) \o <<":">> \o ZeroPad(Decimal(time.minute), 2)
        \o <<":">> \o ZeroPad(Decimal(time.second), 2) \o <<"+", "0", "0", ":", "0", "0">>

----------------------------------------------------------------------------
(* SyncClient::send_data                                                   *)

\* let data = format!(...): the request body.
RequestBody(dimension1, dimension2, dimension3) ==
    <<"{","\n"," "," "," "," ","\"","d","i","m","e","n","s","i","o","n","1","\"",":"," ">>
        \o DebugString(dimension1)
        \o <<",","\n"," "," "," "," ","\"","d","i","m","e","n","s","i","o","n","2","\"",":"," ">>
        \o DebugString(dimension2)
        \o <<",","\n"," "," "," "," ","\"","d","i","m","e","n","s","i","o","n","3","\"",":"," ","\"">>
        \o DisplayF64(dimension3)
        \o <<"\"","\n","}">>

\* A mutation of Request: the password is left out of the basic authentication.
Request_noPassword(client, data) ==
    [method |-> "POST", url |-> client.url,
     basic_auth |-> [username |-> client.user, password |-> None(<<>>)],
     body |-> data]

\* self.client.post(&self.url).basic_auth(self.user.clone(),
\* Some(self.passwd.clone())).body(data)
Request(client, data) ==
    [method |-> "POST", url |-> client.url,
     basic_auth |-> [username |-> client.user, password |-> Some(client.passwd)],
     body |-> data]

\* What a call ends with: Ok(()), an Err with its error type and message, or
\* a panic with its message.
Ok == [kind |-> "Ok", error |-> "none", message |-> <<>>]
Err(error, message) == [kind |-> "Err", error |-> error, message |-> message]
Panic(message) == [kind |-> "Panic", error |-> "none", message |-> message]

\* http::StatusCode::OK
OK == 200

\* A mutation of UnexpectedStatus: only the error statuses are refused.
UnexpectedStatus_errorsOnly(status) == status >= 400

\* resp.status() != http::StatusCode::OK
UnexpectedStatus(status) == status # OK

\* A mutation of StatusError: the response body is left out of the message.
StatusError_noBody(status, message) ==
    Err("ApiError",
        <<"u","n","e","x","p","e","c","t","e","d"," ","s","t","a","t","u","s"," ","c","o","d","e",
          ":"," ">> \o Decimal(status))

\* Err(Box::new(ApiError(format!("unexpected status code: {:?}\n{}", status,
\* message)))); {:?} of a StatusCode is its number.
StatusError(status, message) ==
    Err("ApiError",
        <<"u","n","e","x","p","e","c","t","e","d"," ","s","t","a","t","u","s"," ","c","o","d","e",
          ":"," ">> \o Decimal(status) \o <<"\n">> \o message)

\* A mutation of ParseError: the failure to parse makes the call panic.
ParseError_panic == Panic(<<>>)

\* json::parse(..)? on a body that is no JSON: the json::Error is returned.
ParseError == Err("json::Error", <<>>)

\* req.body(data).send()? and resp.text()? on a failure of the transport: the
\* reqwest::Error is returned.
TransportError == Err("reqwest::Error", <<>>)

\* A mutation of ErrorMessage: the message is looked up in the envelope itself.
ErrorMessage_topLevel(json_resp) == as_str(Index(json_resp, <<"m","e","s","s","a","g","e">>))

\* json_resp["error"]["message"].as_str()
ErrorMessage(json_resp) ==
    as_str(Index(Index(json_resp, <<"e","r","r","o","r">>), <<"m","e","s","s","a","g","e">>))

\* The envelope says success is false: the ApiError with error.message, or the
\* panic of expect("There should be an error.message in the API response").
DomainError(json_resp) ==
    LET message == ErrorMessage(json_resp)
    IN  IF message.some
        THEN Err("ApiError",
                 <<"u","n","e","x","p","e","c","t","e","d"," ","A","P","I"," ","r","e","s","p","o",
                   "n","s","e",":"," ">> \o message.x)
        ELSE Panic(<<"T","h","e","r","e"," ","s","h","o","u","l","d"," ","b","e"," ","a","n"," ",
                     "e","r","r","o","r",".","m","e","s","s","a","g","e"," ","i","n"," ","t","h",
                     "e"," ","A","P","I"," ","r","e","s","p","o","n","s","e">>)

\* The envelope of a 200 response: Ok(()) when success is true, the panic of
\* expect("There should be a success field in the API response") when success
\* is no boolean.
Envelope(text) ==
    LET json_resp == JsonParse(text)
        success == as_bool(Index(json_resp.v, <<"s","u","c","c","e","s","s">>))
    IN  IF ~json_resp.ok THEN ParseError
        ELSE IF ~success.some
        THEN Panic(<<"T","h","e","r","e"," ","s","h","o","u","l","d"," ","b","e"," ","a"," ","s",
                     "u","c","c","e","s","s"," ","f","i","e","l","d"," ","i","n"," ","t","h","e",
                     " ","A","P","I"," ","r","e","s","p","o","n","s","e">>)
        ELSE IF ~success.x THEN DomainError(json_resp.v)
        ELSE Ok

\* What send_data ends with when the network answers net = [send, status,
\* read, body]: send and read say whether sending the request and reading the
\* response body went through.
Outcome(net) ==
    IF net.send = "err" THEN TransportError
    ELSE IF UnexpectedStatus(net.status) THEN
        IF net.read = "err" THEN TransportError ELSE StatusError(net.status, net.body)
    ELSE IF net.read = "err" THEN TransportError
    ELSE Envelope(net.body)

\* A mutation of SendData: a request the transport failed to send is sent again.
SendData_retry(client, dimension1, dimension2, dimension3, net) ==
    LET request == Request(client, RequestBody(dimension1, dimension2, dimension3))
    IN  [requests |-> IF net.send = "err" THEN <<request, request>> ELSE <<request>>,
         result   |-> Outcome(net)]

\* send_data(dimension1, dimension2, dimension3) on the client, the network
\* answering net: the requests it issues and what it ends with.
SendData(client, dimension1, dimension2, dimension3, net) ==
    [requests |-> <<Request(client, RequestBody(dimension1, dimension2, dimension3))>>,
     result   |-> Outcome(net)]

\* A mutation of SendTimelineData: the time is sent in the RFC 3339 format.
SendTimelineData_rfc3339(client, key, time, value, net) ==
    SendData(client, key, to_rfc3339(time), value, net)

\* send_timeline_data(key, time, value)
SendTimelineData(client, key, time, value, net) ==
    SendData(client, key, to_rfc2822(time), value, net)

\* send_timeline_now_data(key, value), Utc::now() returning now.
SendTimelineNowData(client, key, value, now, net) ==
    SendTimelineData(client, key, now, value, net)

----------------------------------------------------------------------------
(* The inputs of the model.                                                *)

NoTime == [year |-> 1970, month |-> 1, day |-> 1, hour |-> 0, minute |-> 0, second |-> 0]

\* A call: the method, and its arguments (dim2 for send_data, time for
\* send_timeline_data; for send_timeline_now_data time is what Utc::now() gave).
Call(op, key, dim2, time, value) ==
    [op |-> op, key |-> key, dim2 |-> dim2, time |-> time, value |-> value]

NoCall == Call("none", <<>>, <<>>, NoTime, Finite(FALSE, 0, 0))

NoNet == [send |-> "none", status |-> 0, read |-> "none", body |-> <<>>]

NoResult == [kind |-> "none", error |-> "none", message |-> <<>>]

\* The response bodies the remote service is made to answer with.
SampleBodies ==
    { <<"{","\"","s","u","c","c","e","s","s","\"",":"," ","t","r","u","e","}">>,
      <<"{","\"","s","u","c","c","e","s","s","\"",":"," ","f","a","l","s","e",","," ","\"","e",
        "r","r","o","r","\"",":"," ","{","\"","m","e","s","s","a","g","e","\"",":"," ","\"","q",
        "u","o","t","a"," ","e","x","c","e","e","d","e","d","\"","}","}">>,
      <<"n","o","t"," ","j","s","o","n">>,
      <<"i","n","t","e","r","n","a","l"," ","e","r","r","o","r">>,
      <<"{","\"","s","u","c","c","e","s","s","\"",":"," ","\"","y","e","s","\"","}">>,
      <<"{","\"","s","u","c","c","e","s","s","\"",":"," ","f","a","l","s","e","}">>,
      <<"{","\"","s","u","c","c","e","s","s","\"",":"," ","f","a","l","s","e",","," ","\"","e",
        "r","r","o","r","\"",":"," ","{","\"","m","e","s","s","a","g","e","\"",":"," ","7","}","}">>,
      <<"\"","n","o","t"," ","j","s","o","n","\"">>,
      <<"[","t","r","u","e","]">>,
      <<"{","\"","s","u","c","c","e","s","s","\"",":"," ","n","u","l","l","}">>,
      <<"{","\"","s","u","c","c","e","s","s","\"",":"," ","f","a","l","s","e",","," ","\"","e",
        "r","r","o","r","\"",":"," ","\"","d","e","n","i","e","d","\"","}">>,
      <<"{","\"","s","u","c","c","e","s","s","\"",":"," ","t","r","u","e">>,
      <<" ","{","\"","e","r","r","o","r","\"",":"," ","{","\"","m","e","s","s","a","g","e","\"",
        ":"," ","\"","l","a","t","e","\"","}",","," ","\"","s","u","c","c","e","s","s","\"",":",
        " ","f","a","l","s","e","}"," ">>,
      <<"{","\"","s","t","a","t","u","s","\"",":"," ","\"","o","k","\"","}">> }

\* And every text over these characters of at most MaxBodyLen.
BodyChars == {"{", "}", "1"}

ResponseBodies == SampleBodies \cup TextsUpTo(BodyChars, MaxBodyLen)

Statuses == {200, 201, 500}

\* What the network can answer to a request: the request is not sent; or a
\* response comes with a status and its body cannot be read; or with a status
\* and a body.
Nets ==
    {[send |-> "err", status |-> 0, read |-> "err", body |-> <<>>]}
    \cup [send : {"ok"}, status : Statuses, read : {"err"}, body : {<<>>}]
    \cup [send : {"ok"}, status : Statuses, read : {"ok"}, body : ResponseBodies]

Keys == {<<"k">>}

Dim2s == {<<"b">>}

Values == {Finite(TRUE, 15, 1)}

Times ==
    { [year |-> 2023, month |-> 7, day |-> 1, hour |-> 10, minute |-> 52, second |-> 37],
      [year |-> 2024, month |-> 2, day |-> 29, hour |-> 23, minute |-> 59, second |-> 9] }

----------------------------------------------------------------------------
(* The client in use: Init is the state after SyncClient::new, and each    *)
(* action is one call of a method, from its start to its return or panic.  *)

Client == [url |-> url, user |-> user, passwd |-> passwd]

Init ==
    /\ args \in [base : {<<"h">>, <<"h", "/">>}, collection : {42},
                 user : {<<"u">>}, passwd : {<<"p">>}]
    /\ LET c == New(args.base, args.collection, args.user, args.passwd) IN
         /\ url = c.url
         /\ user = c.user
         /\ passwd = c.passwd
    /\ requests = <<>>
    /\ calls = 0
    /\ lastCall = NoCall
    /\ lastNet = NoNet
    /\ result = NoResult
    /\ pc = "ready"

\* The call made, the network answering net, did r: the requests it issued are
\* on the wire, and it returned, or panicked.
Finish(call, net, r) ==
    /\ requests' = requests \o r.requests
    /\ calls' = calls + 1
    /\ lastCall' = call
    /\ lastNet' = net
    /\ result' = r.result
    /\ pc' = IF r.result.kind = "Panic" THEN "panicked" ELSE "ready"
    /\ UNCHANGED <<args, url, user, passwd>>

CallSendData ==
    /\ pc = "ready"
    /\ calls < MaxCalls
    /\ \E net \in Nets, key \in Keys, dim2 \in Dim2s, value \in Values :
         Finish(Call("send_data", key, dim2, NoTime, value), net,
                SendData(Client, key, dim2, value, net))

CallSendTimelineData ==
    /\ pc = "ready"
    /\ calls < MaxCalls
    /\ \E net \in Nets, key \in Keys, time \in Times, value \in Values :
         Finish(Call("send_timeline_data", key, <<>>, time, value), net,
                SendTimelineData(Client, key, time, value, net))

CallSendTimelineNowData ==
    /\ pc = "ready"
    /\ calls < MaxCalls
    /\ \E net \in Nets, key \in Keys, now \in Times, value \in Values :
         Finish(Call("send_timeline_now_data", key, <<>>, now, value), net,
                SendTimelineNowData(Client, key, value, now, net))

Next == CallSendData \/ CallSendTimelineData \/ CallSendTimelineNowData

Spec == Init /\ [][Next]_vars

----------------------------------------------------------------------------
(* Construction on its own: SyncClient::new on every base URL and          *)
(* collection id of the bounds.                                            *)

BaseChars == {"h", "/"}

\* The collection ids tried: the small ones, and the largest one TLC's
\* integers hold (a u32 goes up to 4294967295, printed by the same Decimal).
Collections == (0..MaxCollection) \cup {2147483647}

InitNew ==
    /\ args \in [base : TextsUpTo(BaseChars, MaxBaseLen), collection : Collections,
                 user : {<<"u">>}, passwd : {<<"p">>}]
    /\ url = <<>>
    /\ user = <<>>
    /\ passwd = <<>>
    /\ requests = <<>>
    /\ calls = 0
    /\ lastCall = NoCall
    /\ lastNet = NoNet
    /\ result = NoResult
    /\ pc = "new"

Construct ==
    /\ pc = "new"
    /\ LET c == New(args.base, args.collection, args.user, args.passwd) IN
         /\ url' = c.url
         /\ user' = c.user
         /\ passwd' = c.passwd
    /\ pc' = "ready"
    /\ UNCHANGED <<args, requests, calls, lastCall, lastNet, result>>

NextNew == Construct

SpecNew == InitNew /\ [][NextNew]_vars

----------------------------------------------------------------------------
(* The request body on its own: the format! of send_data on every          *)
(* dimension1, dimension2 and dimension3 of the bounds.                    *)

DimChars == {"a", "\"", "\\", "\n", "\f"}

Dimensions == TextsUpTo(DimChars, MaxDimLen)

Numbers ==
    { Finite(FALSE, 25, 0), Finite(TRUE, 15, 1), Finite(FALSE, 5, 2), Finite(FALSE, 0, 0),
      NaN, Infinity(FALSE) }

InitBody ==
    /\ args = [base |-> <<"h">>, collection |-> 42, user |-> <<"u">>, passwd |-> <<"p">>]
    /\ LET c == New(args.base, args.collection, args.user, args.passwd) IN
         /\ url = c.url
         /\ user = c.user
         /\ passwd = c.passwd
    /\ requests = <<>>
    /\ calls = 0
    /\ lastCall \in {Call("send_data", d1, d2, NoTime, d3) :
                        d1 \in Dimensions, d2 \in Dimensions, d3 \in Numbers}
    /\ lastNet = NoNet
    /\ result = NoResult
    /\ pc = "format"

FormatBody ==
    /\ pc = "format"
    /\ requests' = <<Request(Client, RequestBody(lastCall.key, lastCall.dim2, lastCall.value))>>
    /\ pc' = "formatted"
    /\ UNCHANGED <<args, url, user, passwd, calls, lastCall, lastNet, result>>

NextBody == FormatBody

SpecBody == InitBody /\ [][NextBody]_vars

----------------------------------------------------------------------------
(* What the claims are stated with: read off the state, nothing of the     *)
(* client's code.                                                          *)

\* The fixed route segment.
Route ==
    <<"a","p","p","s","/","a","n","a","l","y","t","i","c","s","/","a","p","i","/","1",".","0",
      "/","a","d","d","d","a","t","a","/">>

\* The base URL without its trailing separator, when it has one.
Stem(base) ==
    IF base # <<>> /\ base[Len(base)] = "/" THEN SubSeq(base, 1, Len(base) - 1) ELSE base

RECURSIVE DigitsValue(_, _)
\* The number the first n characters of text, all digits, denote.
DigitsValue(text, n) ==
    IF n = 0 THEN 0 ELSE DigitsValue(text, n - 1) * 10 + DigitValue(text[n])

\* text is the number n as a plain unsigned decimal: digits only, no leading
\* zero, no sign, no padding.
IsPlainDecimal(text, n) ==
    /\ Len(text) >= 1
    /\ \A i \in 1..Len(text) : text[i] \in DigitChars
    /\ Len(text) > 1 => text[1] # "0"
    /\ DigitsValue(text, Len(text)) = n

\* text is decimal text for the finite number x: an optional "-", digits, and
\* optionally a "." and digits, denoting x.
IsDecimalTextOf(text, x) ==
    LET neg == Len(text) >= 1 /\ text[1] = "-"
        body == IF neg THEN SubSeq(text, 2, Len(text)) ELSE text
        dots == {i \in 1..Len(body) : body[i] = "."}
        dot == IF dots = {} THEN Len(body) + 1 ELSE CHOOSE i \in dots : TRUE
        whole == SubSeq(body, 1, dot - 1)
        decimals == SubSeq(body, dot + 1, Len(body))
        digits == whole \o decimals
    IN  /\ Cardinality(dots) <= 1
        /\ Len(whole) >= 1
        /\ dots # {} => Len(decimals) >= 1
        /\ \A i \in 1..Len(digits) : digits[i] \in DigitChars
        /\ Shortest(Finite(neg, DigitsValue(digits, Len(digits)), Len(decimals))) = Shortest(x)

\* The last call's request was sent and a response with a status and a body
\* came back.
Responded == calls > 0 /\ lastNet.send = "ok" /\ lastNet.read = "ok"

\* The response body as JSON, and the members of the envelope the claims name.
ResponseJson == JsonParse(lastNet.body)

SuccessField == Index(ResponseJson.v, <<"s","u","c","c","e","s","s">>)

ErrorMessageField ==
    Index(Index(ResponseJson.v, <<"e","r","r","o","r">>), <<"m","e","s","s","a","g","e">>)

\* The last request issued, and its body as JSON.
LastRequest == requests[Len(requests)]

RequestJson == JsonParse(LastRequest.body)

----------------------------------------------------------------------------
(* The claims.                                                             *)

\* C1: send_data returns Ok(()) if and only if the response status is exactly
\* 200, the response body parses as JSON and the envelope's success field is
\* the boolean true; on every other answer of the network it does not return Ok.
C1_OkIffStatus200AndSuccessTrue ==
    calls > 0 =>
        (result.kind = "Ok" <=>
            /\ Responded
            /\ lastNet.status = 200
            /\ ResponseJson.ok
            /\ SuccessField.t = "boolean"
            /\ SuccessField.b)

\* C1's case: a call answered 200 with success true has returned Ok.
C1_Witness ==
    /\ Responded
    /\ lastNet.status = 200
    /\ ResponseJson.ok
    /\ SuccessField = JBool(TRUE)
    /\ result.kind = "Ok"

\* C2: every failure of send_data, send_timeline_data and
\* send_timeline_now_data is returned to the caller as an Err: whatever the
\* network answers, the call ends by returning a Result, never by panicking.
C2_EveryFailureIsReturned ==
    calls > 0 => result.kind \in {"Ok", "Err"}

\* C3: for every response whose status is not 200, whatever its body, send_data
\* fails with an ApiError whose message contains the status code and the raw
\* response body; the body is not interpreted as an envelope.
C3_Non200IsApiErrorWithStatusAndBody ==
    (Responded /\ lastNet.status # 200) =>
        /\ result.kind = "Err"
        /\ result.error = "ApiError"
        /\ Contains(result.message, Decimal(lastNet.status))
        /\ Contains(result.message, lastNet.body)

\* C3's case: a call answered with a status other than 200 and the body
\* {"success": true} has failed with an ApiError.
C3_Witness ==
    /\ Responded
    /\ lastNet.status # 200
    /\ ResponseJson.ok
    /\ SuccessField = JBool(TRUE)
    /\ result.error = "ApiError"

\* C4: for every 200 response whose JSON envelope has success equal to false
\* (and with it an error.message string), send_data fails with an ApiError
\* whose message contains the envelope's error.message.
C4_DomainErrorCarriesMessage ==
    ( /\ Responded
      /\ lastNet.status = 200
      /\ ResponseJson.ok
      /\ SuccessField = JBool(FALSE)
      /\ ErrorMessageField.t = "string" ) =>
        /\ result.kind = "Err"
        /\ result.error = "ApiError"
        /\ Contains(result.message, ErrorMessageField.s)

\* C4's case: a call answered 200 with success false and the error.message
\* "quota exceeded" has failed with an ApiError.
C4_Witness ==
    /\ Responded
    /\ lastNet.status = 200
    /\ ResponseJson.ok
    /\ SuccessField = JBool(FALSE)
    /\ ErrorMessageField =
           JString(<<"q","u","o","t","a"," ","e","x","c","e","e","d","e","d">>)
    /\ result.error = "ApiError"

\* C5: for every 200 response whose body is no JSON, send_data fails by
\* returning a parse error, which is no ApiError, and does not panic.
C5_UnparseableBodyIsParseError ==
    (Responded /\ lastNet.status = 200 /\ ~ResponseJson.ok) =>
        /\ result.kind = "Err"
        /\ result.error = "json::Error"
        /\ result.error # "ApiError"

\* C5's case: a call answered 200 with the body not json has returned an Err.
C5_Witness ==
    /\ Responded
    /\ lastNet.status = 200
    /\ lastNet.body = <<"n","o","t"," ","j","s","o","n">>
    /\ result.kind = "Err"

\* C6: for every base URL, with or without a trailing "/", and every
\* collection id, the URL SyncClient::new builds has exactly one "/" between
\* the base and the route segment apps/analytics/api/1.0/adddata/, and ends
\* with the collection id as a plain unsigned decimal integer.
C6_UrlHasOneSeparatorAndPlainId ==
    pc = "ready" =>
        LET prefix == Stem(args.base) \o <<"/">> \o Route
        IN  /\ StartsWith(url, prefix)
            /\ IsPlainDecimal(SubSeq(url, Len(prefix) + 1, Len(url)), args.collection)

\* C6's case: a client was built from a base URL with a trailing "/" and a
\* collection id of several digits.
C6_Witness ==
    /\ pc = "ready"
    /\ Len(args.base) > 1
    /\ EndsWith(args.base, <<"/">>)
    /\ args.collection > 9

\* C7: after any sequence of calls, succeeding or failing, the client's url,
\* user and passwd are what construction made them, and every request issued
\* is a POST to that URL with basic authentication for exactly the user and
\* password given to new.
C7_ClientImmutableAndRequestsAuthenticated ==
    /\ url = Stem(args.base) \o <<"/">> \o Route \o Decimal(args.collection)
    /\ user = args.user
    /\ passwd = args.passwd
    /\ \A i \in 1..Len(requests) :
         /\ requests[i].method = "POST"
         /\ requests[i].url = Stem(args.base) \o <<"/">> \o Route \o Decimal(args.collection)
         /\ requests[i].basic_auth.username = args.user
         /\ requests[i].basic_auth.password.some
         /\ requests[i].basic_auth.password.x = args.passwd

\* C7's case: two calls were made, the last of them failing.
C7_Witness ==
    /\ calls >= 2
    /\ Len(requests) >= 2
    /\ result.kind = "Err"

\* C8: no send is retried and sends are independent: each call issues exactly
\* one request whatever its outcome, so N calls issue N requests, and the
\* result of a call is decided by the answer to its own request alone.
C8_OneRequestPerCallAndOwnResult ==
    /\ Len(requests) = calls
    /\ calls > 0 => result = Outcome(lastNet)

\* C8's case: the request of a second call could not be sent, and the call
\* returned the transport's error with two requests issued in all.
C8_Witness ==
    /\ calls = 2
    /\ Len(requests) = 2
    /\ lastNet.send = "err"
    /\ result.error = "reqwest::Error"

\* C9: send_timeline_data(key, time, value) is send_data(key, the RFC 2822
\* rendering of time, value), and send_timeline_now_data(key, value) is
\* send_timeline_data(key, the current UTC time, value): the same single
\* request and the same result, for every answer of the network.
C9_TimelineCallsAreSendData ==
    lastCall.op \in {"send_timeline_data", "send_timeline_now_data"} =>
        LET direct == SendData(Client, lastCall.key, to_rfc2822(lastCall.time),
                               lastCall.value, lastNet)
        IN  /\ Len(requests) = calls
            /\ <<LastRequest>> = direct.requests
            /\ result = direct.result
            /\ RequestJson.ok
            /\ Index(RequestJson.v, <<"d","i","m","e","n","s","i","o","n","2">>)
                   = JString(to_rfc2822(lastCall.time))

\* C9's case: send_timeline_now_data was called and failed on the response.
C9_Witness ==
    /\ lastCall.op = "send_timeline_now_data"
    /\ Responded
    /\ result.kind = "Err"

\* C10: for all dimension1, dimension2 and (finite) dimension3, the request
\* body send_data builds is a JSON object of exactly the three fields
\* dimension1, dimension2 and dimension3, the first two the input strings,
\* JSON-escaped, and the third the number as decimal text in a JSON string.
C10_BodyIsTheThreeJsonFields ==
    (pc = "formatted" /\ lastCall.value.class = "finite") =>
        /\ RequestJson.ok
        /\ RequestJson.v.t = "object"
        /\ Len(RequestJson.v.kids) = 3
        /\ Index(RequestJson.v, <<"d","i","m","e","n","s","i","o","n","1">>)
               = JString(lastCall.key)
        /\ Index(RequestJson.v, <<"d","i","m","e","n","s","i","o","n","2">>)
               = JString(lastCall.dim2)
        /\ Index(RequestJson.v, <<"d","i","m","e","n","s","i","o","n","3">>).t = "string"
        /\ IsDecimalTextOf(
               Index(RequestJson.v, <<"d","i","m","e","n","s","i","o","n","3">>).s,
               lastCall.value)

====
